---- MODULE Spec2Model ----
(***************************************************************************)
(* Model of SimpleJobScheduler (src/src/simple/job_scheduler.rs): the job  *)
(* registry, remove, tick with its spawned tasks, and shutdown.            *)
(*                                                                         *)
(* Every job sits behind a std::sync::RwLock.  read()/write() block while  *)
(* a writer holds the lock and return Err once the lock is poisoned (a     *)
(* holder panicked).  The registry's own methods take &mut self, so calls  *)
(* into it are serialised by the scheduler handle: at most one is in       *)
(* progress, described by the record op.                                   *)
(***************************************************************************)
EXTENDS Integers, Sequences, FiniteSets, TLC

\* ---- bounds ----
NumJobs == 2          \* job identities 1..NumJobs
MaxTicks == 2         \* tick calls made by the driver
MaxRemoves == 1       \* remove calls made by the driver
MaxTasks == 2         \* run tasks dispatched over all ticks
MaxShutdowns == 1     \* shutdown calls made by the driver
MaxSeqShutdowns == 2  \* shutdown calls of a driver that never calls tick
MaxDiff == 2          \* largest |next - now| of an upcoming instant

JobIds == 1..NumJobs
JobTypes == {"OneShot", "Repeated", "CronSchedule"}
Driver == 0
\* Task ids: every run task spawns at most one removal task.
TaskIds == 1..(2 * MaxTasks)

VARIABLES
    jobs,             \* self.jobs: the registry, a sequence of job ids
    added,            \* ids ever handed to add
    jtype,            \* job_type() of every job ("none" before it exists)
    stopped,          \* the job's stopped flag
    aborts,           \* number of abort_join_handle() calls on the job
    notified,         \* number of notify_on_removal() calls on the job
    holder,           \* task holding the job's write lock, 0 when free
    poisoned,         \* the job's RwLock is poisoned
    tasks,            \* tasks handed to tokio::spawn, in spawn order
    op,               \* the registry call in progress
    scanned,          \* due() results of the tick scans: [tick, job, due]
    removedArgs,      \* ids whose job a remove call found and matched
    returned,         \* ids of present jobs for which remove has returned
    nTicks,           \* tick calls started
    nRemoves,         \* remove calls started by the driver
    nShutdowns,       \* shutdown calls started
    shutdown_handler, \* self.shutdown_handler is Some
    handlerCalls,     \* invocations of the shutdown handler, each spawning
                      \* the future it returned
    completionsRan,   \* spawned handler futures that have run
    handlerInvoked,   \* invocations of the handler object now registered
    upcoming,         \* per job: what schedule() and upcoming(Utc) yield now
    sleep             \* the last result of time_till_next_job

vars == <<jobs, added, jtype, stopped, aborts, notified, holder, poisoned,
          tasks, op, scanned, removedArgs, returned, nTicks, nRemoves,
          nShutdowns,
          shutdown_handler, handlerCalls, completionsRan, handlerInvoked,
          upcoming, sleep>>

jobVars == <<jtype, stopped, aborts, notified>>
lockVars == <<holder, poisoned>>
histVars == <<scanned, removedArgs, returned>>
countVars == <<nTicks, nRemoves, nShutdowns>>
shutVars == <<shutdown_handler, handlerCalls, completionsRan, handlerInvoked>>
sleepVars == <<upcoming, sleep>>

\* What a job's schedule yields: no schedule, a schedule with no upcoming
\* instant, or an upcoming instant at next - now = diff.
NoSchedule == [kind |-> "noSchedule", diff |-> 0]
NoUpcoming == [kind |-> "noUpcoming", diff |-> 0]
At(d) == [kind |-> "at", diff |-> d]
ScheduleOutcomes ==
    {NoSchedule, NoUpcoming} \cup {At(d) : d \in (0 - MaxDiff)..MaxDiff}

NotCalled == [called |-> FALSE, ms |-> 0]

Range(s) == {s[n] : n \in DOMAIN s}

\* Snapshot of what a remove call can change, taken when the call is entered.
Pre == [jobs |-> jobs, stopped |-> stopped, aborts |-> aborts,
        notified |-> notified]

NoPre == [jobs |-> <<>>, stopped |-> [j \in JobIds |-> FALSE],
          aborts |-> [j \in JobIds |-> 0], notified |-> [j \in JobIds |-> 0]]

NoOp == [kind |-> "none", caller |-> Driver, arg |-> 0, phase |-> "idle",
         i |-> 0, kept |-> <<>>, removed |-> <<>>, pre |-> NoPre,
         snap |-> <<>>, k |-> 0, res |-> "ok",
         failed |-> {}, lockErr |-> FALSE, ev |-> <<>>, calls0 |-> 0]

Init ==
    /\ jobs = <<>>
    /\ added = {}
    /\ jtype = [j \in JobIds |-> "none"]
    /\ stopped = [j \in JobIds |-> FALSE]
    /\ aborts = [j \in JobIds |-> 0]
    /\ notified = [j \in JobIds |-> 0]
    /\ holder = [j \in JobIds |-> 0]
    /\ poisoned = [j \in JobIds |-> FALSE]
    /\ tasks = <<>>
    /\ op = NoOp
    /\ scanned = {}
    /\ removedArgs = {}
    /\ returned = {}
    /\ nTicks = 0
    /\ nRemoves = 0
    /\ nShutdowns = 0
    /\ shutdown_handler = FALSE
    /\ handlerCalls = 0
    /\ completionsRan = 0
    /\ handlerInvoked = 0
    /\ upcoming = [j \in JobIds |-> NoSchedule]
    /\ sleep = NotCalled

\* ---- add ----
\* self.jobs.push(job); the caller hands in a fresh job with a unique id
\* (the ids are handed out in order of creation).
Add(j, ty) ==
    /\ op.kind = "none"
    /\ j \notin added
    /\ j = Cardinality(added) + 1
    /\ jobs' = Append(jobs, j)
    /\ added' = added \cup {j}
    /\ jtype' = [jtype EXCEPT ![j] = ty]
    /\ UNCHANGED <<sleepVars,
                   stopped, aborts, notified, lockVars, tasks, op, histVars,
                   countVars, shutVars>>

\* ---- remove ----
\* The closure's local not_to_be_removed: the id comparison, false when the
\* read lock is poisoned.
NotToBeRemoved(x, id) == IF ~poisoned[x] THEN x = id ELSE FALSE

\* if !not_to_be_removed { removed.push(..) }
PushRemoved(removed, x, id) ==
    IF ~NotToBeRemoved(x, id) THEN Append(removed, x) ELSE removed

\* Faulty variant of Retained: the negation in front of the closure's block is lost.
RetainedNoNegation(x, id) == NotToBeRemoved(x, id)

\* retain(|f| !{ ...; not_to_be_removed })
Retained(x, id) == ~NotToBeRemoved(x, id)

\* job_type is OneShot or Repeated
Abortable(ty) == ty = "OneShot" \/ ty = "Repeated"

\* The frame of a remove call entered by caller c for id.  failed collects
\* the jobs whose read lock failed in this call's retain, ev the calls made
\* on the jobs in the finalisation loop, in order.
RemoveFrame(o, c, id) ==
    [o EXCEPT !.caller = c, !.arg = id,
              !.phase = IF Len(jobs) = 0 THEN "rret" ELSE "retain",
              !.i = 1, !.kept = <<>>, !.removed = <<>>, !.pre = Pre,
              !.failed = {}, !.ev = <<>>]

\* What a task does when the registry call it made is over.
\* A run task is back in its body; a removal task is finished.
Resume(ts, c) ==
    IF c = Driver THEN ts
    ELSE IF ts[c].kind = "run"
         THEN [ts EXCEPT ![c].st = "running", ![c].called = TRUE, ![c].arg = 0]
         ELSE [ts EXCEPT ![c].st = "done"]

\* A panic inside the registry call unwinds the calling task.
Unwound(ts, c) ==
    IF c = Driver THEN ts
    ELSE [ts EXCEPT ![c].st = "panicked", ![c].called = FALSE, ![c].arg = 0]

\* Unwinding a run task drops its write guard and poisons the job's lock.
UnwoundHolder(c) ==
    [j \in JobIds |-> IF c # Driver /\ holder[j] = c THEN 0 ELSE holder[j]]

UnwoundPoison(c) ==
    [j \in JobIds |-> IF c # Driver /\ holder[j] = c THEN TRUE ELSE poisoned[j]]

InRemove == op.kind \in {"remove", "shutdown"}

\* f.0.read() is Err on a poisoned lock.
ReadFailed(failed, x) == IF poisoned[x] THEN failed \cup {x} ELSE failed

\* One call of the retain closure: read-lock the job, compare the ids.
\* Vec::retain compacts in place: the kept prefix, then the unvisited rest.
RetainStep ==
    /\ InRemove /\ op.phase = "retain"
    /\ LET x == op.pre.jobs[op.i]
           n == Len(op.pre.jobs)
           rem == PushRemoved(op.removed, x, op.arg)
           kept == IF Retained(x, op.arg) THEN Append(op.kept, x) ELSE op.kept
       IN  /\ holder[x] = 0
           /\ jobs' = kept \o SubSeq(op.pre.jobs, op.i + 1, n)
           /\ removedArgs' = IF x = op.arg /\ ~poisoned[x]
                             THEN removedArgs \cup {op.arg} ELSE removedArgs
           /\ op' = IF op.i < n
                    THEN [op EXCEPT !.i = op.i + 1, !.kept = kept, !.removed = rem,
                                    !.failed = ReadFailed(op.failed, x),
                                    !.lockErr = @ \/ poisoned[x]]
                    ELSE [op EXCEPT !.i = 1, !.kept = <<>>, !.removed = rem,
                                 !.failed = ReadFailed(op.failed, x),
                                 !.lockErr = @ \/ poisoned[x],
                                 !.phase = IF rem = <<>> THEN "rret" ELSE "final"]
    /\ UNCHANGED <<sleepVars,
                   added, jobVars, lockVars, tasks, scanned, returned, countVars,
                   shutVars>>

\* The read lock is held for writing by the calling thread itself: the
\* platform either blocks forever (no step) or panics, and Vec::retain then
\* keeps the element whose closure panicked and everything after it.
RetainSelfPanic ==
    /\ InRemove /\ op.phase = "retain"
    /\ op.caller # Driver
    /\ holder[op.pre.jobs[op.i]] = op.caller
    /\ op' = NoOp
    /\ tasks' = Unwound(tasks, op.caller)
    /\ holder' = UnwoundHolder(op.caller)
    /\ poisoned' = UnwoundPoison(op.caller)
    /\ UNCHANGED <<sleepVars,
                   jobs, added, jobVars, histVars, countVars, shutVars>>

\* The calls one iteration of `for job in removed` makes on job x while it
\* holds x's write lock, in program order.
FinalCalls(x) ==
    <<[call |-> "set_stopped", job |-> x]>>
    \o (IF Abortable(jtype[x])
        THEN <<[call |-> "abort_join_handle", job |-> x]>> ELSE <<>>)
    \o <<[call |-> "notify_on_removal", job |-> x]>>

\* One iteration of `for job in removed`: write-lock, set_stopped, abort for
\* OneShot/Repeated, notify_on_removal.
FinalStep ==
    /\ InRemove /\ op.phase = "final"
    /\ LET x == op.removed[op.i]
       IN  /\ holder[x] = 0
           /\ ~poisoned[x]
           /\ stopped' = [stopped EXCEPT ![x] = TRUE]
           /\ aborts' = [aborts EXCEPT
                           ![x] = IF Abortable(jtype[x]) THEN @ + 1 ELSE @]
           /\ notified' = [notified EXCEPT ![x] = @ + 1]
           /\ op' = [op EXCEPT !.i = op.i + 1, !.ev = @ \o FinalCalls(x),
                        !.phase = IF op.i < Len(op.removed) THEN "final" ELSE "rret"]
    /\ UNCHANGED <<sleepVars,
                   jobs, added, jtype, lockVars, tasks, histVars, countVars,
                   shutVars>>

\* job.0.write().unwrap() on a poisoned lock panics; the panic leaves remove
\* (and a surrounding shutdown) and unwinds the caller.
FinalPanic ==
    /\ InRemove /\ op.phase = "final"
    /\ LET x == op.removed[op.i]
       IN  /\ holder[x] = 0
           /\ poisoned[x]
    /\ op' = NoOp
    /\ tasks' = Unwound(tasks, op.caller)
    /\ holder' = UnwoundHolder(op.caller)
    /\ poisoned' = UnwoundPoison(op.caller)
    /\ UNCHANGED <<sleepVars,
                   jobs, added, jobVars, histVars, countVars, shutVars>>

\* Ok(()) of a remove call that was not made by shutdown.
RemoveReturn ==
    /\ op.kind = "remove" /\ op.phase = "rret"
    /\ op' = NoOp
    /\ tasks' = Resume(tasks, op.caller)
    /\ returned' = returned \cup (Range(op.pre.jobs) \cap {op.arg})
    /\ UNCHANGED <<sleepVars,
                   jobs, added, jobVars, lockVars, scanned, removedArgs,
                   countVars, shutVars>>

\* The driver calls remove(id).
DriverRemove(id) ==
    /\ op.kind = "none"
    /\ nRemoves < MaxRemoves
    /\ nRemoves' = nRemoves + 1
    /\ op' = RemoveFrame([NoOp EXCEPT !.kind = "remove"], Driver, id)
    /\ UNCHANGED <<sleepVars,
                   jobs, added, jobVars, lockVars, tasks, histVars, nTicks,
                   nShutdowns, shutVars>>

\* ---- tick ----
\* A task handed to tokio::spawn.  The JoinHandle that spawn returns is
\* dropped, so nothing awaits the task.
RunTask(x, t) ==
    [kind |-> "run", job |-> x, tick |-> t, st |-> "spawned", ran |-> 0,
     called |-> FALSE, awaited |-> FALSE, arg |-> 0]

RemovalTask(x, t) ==
    [kind |-> "rm", job |-> x, tick |-> t, st |-> "spawned", ran |-> 0,
     called |-> FALSE, awaited |-> FALSE, arg |-> 0]

\* Faulty variant of Dispatch: the tick awaits the JoinHandle of the spawned task.
DispatchAwaited(ts, x, t) == Append(ts, [RunTask(x, t) EXCEPT !.awaited = TRUE])

\* tokio::spawn of the task that runs job x for tick t.
Dispatch(ts, x, t) == Append(ts, RunTask(x, t))

\* Faulty variant of DispatchIfDue: the result of the due-check is ignored.
DispatchAlways(ts, x, t, due) == Dispatch(ts, x, t)

\* if jl.tick() { ... tokio::spawn(..) }
DispatchIfDue(ts, x, t, due) == IF due THEN Dispatch(ts, x, t) ELSE ts

RunTasks == {n \in DOMAIN tasks : tasks[n].kind = "run"}

Settled(n) == tasks[n].st \in {"done", "skipped", "panicked"}

\* A JoinHandle the tick call is awaiting.
Awaiting == \E n \in DOMAIN tasks : tasks[n].awaited /\ ~Settled(n)

\* What jl.tick(), the job's due-check, can answer.
DueResults(x) == BOOLEAN

\* The driver calls tick(scheduler).
TickEnter ==
    /\ op.kind = "none"
    /\ nTicks < MaxTicks
    /\ nTicks' = nTicks + 1
    /\ op' = [NoOp EXCEPT !.kind = "tick", !.i = 1,
                          !.phase = IF Len(jobs) = 0 THEN "tret" ELSE "scan"]
    /\ UNCHANGED <<sleepVars,
                   jobs, added, jobVars, lockVars, tasks, histVars, nRemoves,
                   nShutdowns, shutVars>>

\* One iteration of `for jl in self.jobs.iter_mut()`.
TickStep ==
    /\ op.kind = "tick" /\ op.phase = "scan"
    /\ ~Awaiting
    /\ LET x == jobs[op.i]
       IN  \E due \in DueResults(x) :
             /\ due => Cardinality(RunTasks) < MaxTasks
             /\ tasks' = DispatchIfDue(tasks, x, nTicks, due)
             /\ scanned' = scanned \cup {[tick |-> nTicks, job |-> x, due |-> due]}
    /\ op' = [op EXCEPT !.i = op.i + 1,
                        !.phase = IF op.i < Len(jobs) THEN "scan" ELSE "tret"]
    /\ UNCHANGED <<sleepVars,
                   jobs, added, jobVars, lockVars, removedArgs, returned,
                   countVars, shutVars>>

\* Ok(()) of tick.
TickReturn ==
    /\ op.kind = "tick" /\ op.phase = "tret"
    /\ op' = NoOp
    /\ UNCHANGED <<sleepVars,
                   jobs, added, jobVars, lockVars, tasks, histVars, countVars,
                   shutVars>>

\* The spawned task up to the call of run: write-lock the job; on Err skip;
\* for a OneShot job spawn the removal task; call w.run(jobs).
TaskStart(t) ==
    /\ t \in DOMAIN tasks
    /\ tasks[t].kind = "run" /\ tasks[t].st = "spawned"
    /\ LET x == tasks[t].job
       IN  /\ holder[x] = 0
           /\ IF poisoned[x]
              THEN /\ tasks' = [tasks EXCEPT ![t].st = "skipped"]
                   /\ holder' = holder
              ELSE /\ holder' = [holder EXCEPT ![x] = t]
                   /\ LET ts == [tasks EXCEPT ![t].st = "running", ![t].ran = @ + 1]
                      IN  tasks' = IF jtype[x] = "OneShot"
                                   THEN Append(ts, RemovalTask(x, tasks[t].tick))
                                   ELSE ts
    /\ UNCHANGED <<sleepVars,
                   jobs, added, jobVars, poisoned, op, histVars, countVars,
                   shutVars>>

\* run returns; the task ends and drops the write guard.
RunReturn(t) ==
    /\ t \in DOMAIN tasks
    /\ tasks[t].kind = "run" /\ tasks[t].st = "running"
    /\ tasks' = [tasks EXCEPT ![t].st = "done", ![t].called = FALSE]
    /\ holder' = [holder EXCEPT ![tasks[t].job] = 0]
    /\ UNCHANGED <<sleepVars,
                   jobs, added, jobVars, poisoned, op, histVars, countVars,
                   shutVars>>

\* The job body panics: the guard is dropped while unwinding, which poisons
\* the lock.
RunPanic(t) ==
    /\ t \in DOMAIN tasks
    /\ tasks[t].kind = "run" /\ tasks[t].st = "running"
    /\ tasks' = [tasks EXCEPT ![t].st = "panicked", ![t].called = FALSE]
    /\ holder' = [holder EXCEPT ![tasks[t].job] = 0]
    /\ poisoned' = [poisoned EXCEPT ![tasks[t].job] = TRUE]
    /\ UNCHANGED <<sleepVars,
                   jobs, added, jobVars, op, histVars, countVars, shutVars>>

\* The job body asks the scheduler handle to remove a job.
RunCallsRemove(t, id) ==
    /\ t \in DOMAIN tasks
    /\ tasks[t].kind = "run" /\ tasks[t].st = "running"
    /\ ~tasks[t].called
    /\ tasks' = [tasks EXCEPT ![t].st = "waitSched", ![t].arg = id]
    /\ UNCHANGED <<sleepVars,
                   jobs, added, jobVars, lockVars, op, histVars, countVars,
                   shutVars>>

\* jobs.remove(&job_id) through the scheduler handle, from the removal task
\* of a OneShot job or from a job body: wait for the scheduler, enter remove.
HandleRemove(t) ==
    /\ t \in DOMAIN tasks
    /\ \/ tasks[t].kind = "rm" /\ tasks[t].st = "spawned"
       \/ tasks[t].kind = "run" /\ tasks[t].st = "waitSched"
    /\ op.kind = "none"
    /\ op' = RemoveFrame([NoOp EXCEPT !.kind = "remove"], t,
                          IF tasks[t].kind = "rm" THEN tasks[t].job ELSE tasks[t].arg)
    /\ tasks' = [tasks EXCEPT ![t].st = "inRemove"]
    /\ UNCHANGED <<sleepVars,
                   jobs, added, jobVars, lockVars, histVars, countVars, shutVars>>

\* ---- shutdown ----
\* The driver calls shutdown(); self.jobs.clone() is the snapshot drained.
ShutdownCall(max) ==
    /\ op.kind = "none"
    /\ nShutdowns < max
    /\ nShutdowns' = nShutdowns + 1
    /\ op' = [NoOp EXCEPT !.kind = "shutdown", !.snap = jobs, !.k = 1,
                          !.calls0 = handlerCalls,
                          !.phase = IF Len(jobs) = 0 THEN "handler" ELSE "drain"]
    /\ UNCHANGED <<sleepVars,
                   jobs, added, jobVars, lockVars, tasks, histVars, nTicks,
                   nRemoves, shutVars>>

ShutdownEnter == ShutdownCall(MaxShutdowns)

ShutdownEnterSeq == ShutdownCall(MaxSeqShutdowns)

\* One iteration of the drain: read the job's id (Err(Shutdown) when the lock
\* is poisoned), then call self.remove(&job_id).
DrainStep ==
    /\ op.kind = "shutdown" /\ op.phase = "drain"
    /\ LET x == op.snap[op.k]
       IN  /\ holder[x] = 0
           /\ op' = IF poisoned[x]
                    THEN [op EXCEPT !.phase = "sret", !.res = "Shutdown",
                                    !.lockErr = TRUE]
                    ELSE RemoveFrame(op, Driver, x)
    /\ UNCHANGED <<sleepVars,
                   jobs, added, jobVars, lockVars, tasks, histVars, countVars,
                   shutVars>>

\* Faulty variant of DrainPhase: the drain ends after the first job.
DrainPhaseFirstOnly(k, snap) == "handler"

\* `for j in self.jobs.clone()`: after the k-th job, the next one or the end.
DrainPhase(k, snap) == IF k < Len(snap) THEN "drain" ELSE "handler"

\* self.remove returned Ok(()): on to the next job of the snapshot.
DrainNext ==
    /\ op.kind = "shutdown" /\ op.phase = "rret"
    /\ op' = [op EXCEPT !.k = op.k + 1,
                        !.phase = DrainPhase(op.k, op.snap)]
    /\ returned' = returned \cup (Range(op.pre.jobs) \cap {op.arg})
    /\ UNCHANGED <<sleepVars,
                   jobs, added, jobVars, lockVars, tasks, scanned, removedArgs,
                   countVars, shutVars>>

\* After the drain: invoke the handler, if any, and spawn its future.
NotifyStep ==
    /\ op.kind = "shutdown" /\ op.phase = "handler"
    /\ handlerCalls' = IF shutdown_handler THEN handlerCalls + 1 ELSE handlerCalls
    /\ handlerInvoked' = IF shutdown_handler THEN handlerInvoked + 1
                         ELSE handlerInvoked
    /\ op' = [op EXCEPT !.phase = "sret", !.res = "ok"]
    /\ UNCHANGED <<sleepVars,
                   jobs, added, jobVars, lockVars, tasks, histVars, countVars,
                   shutdown_handler, completionsRan>>

\* shutdown returns Ok(()) or Err(Shutdown).
ShutdownReturn ==
    /\ op.kind = "shutdown" /\ op.phase = "sret"
    /\ op' = NoOp
    /\ UNCHANGED <<sleepVars,
                   jobs, added, jobVars, lockVars, tasks, histVars, countVars,
                   shutVars>>

\* Faulty variant of Spawned: the future is dropped, never spawned.
SpawnedNone(calls) == 0

\* tokio::task::spawn of the future of every handler invocation.
Spawned(calls) == calls

\* The spawned task awaits the handler's future.
CompletionRun ==
    /\ completionsRan < Spawned(handlerCalls)
    /\ completionsRan' = completionsRan + 1
    /\ UNCHANGED <<sleepVars,
                   jobs, added, jobVars, lockVars, tasks, op, histVars, countVars,
                   shutdown_handler, handlerCalls, handlerInvoked>>

\* self.shutdown_handler = Some(..): a handler object not yet invoked.
SetShutdownHandler ==
    /\ op.kind = "none"
    /\ shutdown_handler' = TRUE
    /\ handlerInvoked' = 0
    /\ UNCHANGED <<sleepVars,
                   jobs, added, jobVars, lockVars, tasks, op, histVars, countVars,
                   handlerCalls, completionsRan>>

\* self.shutdown_handler = None
RemoveShutdownHandler ==
    /\ op.kind = "none"
    /\ shutdown_handler' = FALSE
    /\ handlerInvoked' = 0
    /\ UNCHANGED <<sleepVars,
                   jobs, added, jobVars, lockVars, tasks, op, histVars, countVars,
                   handlerCalls, completionsRan>>

Next ==
    \/ \E j \in JobIds, ty \in JobTypes : Add(j, ty)
    \/ \E id \in JobIds : DriverRemove(id)
    \/ RetainStep
    \/ RetainSelfPanic
    \/ FinalStep
    \/ FinalPanic
    \/ RemoveReturn
    \/ TickEnter
    \/ TickStep
    \/ TickReturn
    \/ \E t \in TaskIds : TaskStart(t)
    \/ \E t \in TaskIds : RunReturn(t)
    \/ \E t \in TaskIds : RunPanic(t)
    \/ \E t \in TaskIds, id \in JobIds : RunCallsRemove(t, id)
    \/ \E t \in TaskIds : HandleRemove(t)
    \/ ShutdownEnter
    \/ DrainStep
    \/ DrainNext
    \/ NotifyStep
    \/ ShutdownReturn
    \/ CompletionRun
    \/ SetShutdownHandler
    \/ RemoveShutdownHandler

Spec == Init /\ [][Next]_vars

\* ---- time_till_next_job ----
DefaultSleepMs == 500

\* j.0.read().ok().and_then(schedule().and_then(upcoming.take(1).map(next - now))):
\* an Option, <<>> for None and <<d>> for Some(d).
Diff(j) ==
    IF poisoned[j] THEN <<>>
    ELSE IF upcoming[j].kind = "at" THEN <<upcoming[j].diff>> ELSE <<>>

\* .flatten().min() over the jobs in registry order, from position n on.
RECURSIVE MinDiff(_)
MinDiff(n) ==
    IF n > Len(jobs) THEN <<>>
    ELSE LET d == Diff(jobs[n])
             rest == MinDiff(n + 1)
         IN  IF d = <<>> THEN rest
             ELSE IF rest = <<>> THEN d
             ELSE IF rest[1] < d[1] THEN rest ELSE d

\* min.unwrap_or_else(chrono::Duration::zero)
UnwrapOrZero(o) == IF o = <<>> THEN 0 ELSE o[1]

\* Faulty variant of ToStd: the sign is dropped instead of clamped.
ToStdAbs(d) == IF d < 0 THEN 0 - d ELSE d

\* .to_std().unwrap_or_else(|_| Duration::new(0, 0)): to_std is Err for a
\* negative duration.
ToStd(d) == IF d < 0 THEN 0 ELSE d

TimeTillNextJob ==
    IF jobs = <<>> THEN DefaultSleepMs
    ELSE ToStd(UnwrapOrZero(MinDiff(1)))

\* The driver calls time_till_next_job() between two registry calls.
TimeTillNextJobCall ==
    /\ op.kind = "none"
    /\ ~sleep.called
    /\ \A j \in Range(jobs) : holder[j] = 0
    /\ sleep' = [called |-> TRUE, ms |-> TimeTillNextJob]
    /\ UNCHANGED <<jobs, added, jobVars, lockVars, tasks, op, histVars,
                   countVars, shutVars, upcoming>>

\* The registries time_till_next_job is applied to: up to NumJobs jobs, each
\* with a readable or poisoned lock and one of the schedule outcomes.
InitSleep ==
    /\ jobs \in {[n \in 1..k |-> n] : k \in 0..NumJobs}
    /\ added = Range(jobs)
    /\ jtype \in [JobIds -> JobTypes \cup {"none"}]
    /\ \A j \in JobIds : jtype[j] = "none" <=> j \notin added
    /\ stopped = [j \in JobIds |-> FALSE]
    /\ aborts = [j \in JobIds |-> 0]
    /\ notified = [j \in JobIds |-> 0]
    /\ holder = [j \in JobIds |-> 0]
    /\ poisoned \in [JobIds -> BOOLEAN]
    /\ \A j \in JobIds : poisoned[j] => j \in added
    /\ tasks = <<>>
    /\ op = NoOp
    /\ scanned = {}
    /\ removedArgs = {}
    /\ returned = {}
    /\ nTicks = 0
    /\ nRemoves = 0
    /\ nShutdowns = 0
    /\ shutdown_handler = FALSE
    /\ handlerCalls = 0
    /\ completionsRan = 0
    /\ handlerInvoked = 0
    /\ upcoming \in [JobIds -> ScheduleOutcomes]
    /\ \A j \in JobIds : j \notin added => upcoming[j] = NoSchedule
    /\ sleep = NotCalled

NextSleep == TimeTillNextJobCall

SpecSleep == InitSleep /\ [][NextSleep]_vars

\* A driver that makes add, remove, shutdown and handler calls and no tick:
\* no task is spawned for a job, no lock is held or poisoned.  The runtime
\* runs every spawned handler future.
NextDriver ==
    \/ \E j \in JobIds, ty \in JobTypes : Add(j, ty)
    \/ \E id \in JobIds : DriverRemove(id)
    \/ RetainStep
    \/ FinalStep
    \/ RemoveReturn
    \/ ShutdownEnterSeq
    \/ DrainStep
    \/ DrainNext
    \/ NotifyStep
    \/ ShutdownReturn
    \/ CompletionRun
    \/ SetShutdownHandler
    \/ RemoveShutdownHandler

SpecDriver == Init /\ [][NextDriver]_vars /\ WF_vars(CompletionRun)

\* ---- properties ----
Present(j) == j \in Range(jobs)

NoDuplicates(q) == \A m, n \in DOMAIN q : q[m] = q[n] => m = n

\* A remove call (made directly or by shutdown) is at its return.
AtRemoveReturn == InRemove /\ op.phase = "rret"

\* C1: after remove(id) returns for an id that was in the registry, the job
\* that carried the id is stopped and this call has invoked its
\* notify_on_removal exactly once.
C1_RemovedJobFinalized ==
    (AtRemoveReturn /\ op.arg \in Range(op.pre.jobs))
        => /\ stopped[op.arg]
           /\ notified[op.arg] = op.pre.notified[op.arg] + 1

C3_AbsentRemoveIsNoOp ==
    (AtRemoveReturn /\ op.kind = "remove" /\ op.arg \notin Range(op.pre.jobs))
        => /\ jobs = op.pre.jobs
           /\ stopped = op.pre.stopped
           /\ aborts = op.pre.aborts
           /\ notified = op.pre.notified

\* C4: every job in the registry has stopped = FALSE.
C4_PresentJobsActive == \A j \in JobIds : Present(j) => ~stopped[j]

\* The run tasks that tick t dispatched for job j.
TickTasks(t, j) ==
    {n \in DOMAIN tasks :
        tasks[n].kind = "run" /\ tasks[n].tick = t /\ tasks[n].job = j}

\* Tick t has returned and every task it dispatched has ended.
TickSettled(t) ==
    /\ t \in 1..nTicks
    /\ ~(op.kind = "tick" /\ nTicks = t)
    /\ \A n \in DOMAIN tasks :
         (tasks[n].kind = "run" /\ tasks[n].tick = t) => Settled(n)

\* C5 as stated: once a tick has settled, every job whose due() was true in
\* it was dispatched once and had run invoked exactly once, and no run was
\* invoked for a job whose due() was false.
C5_DueJobsRunOnce ==
    \A r \in scanned :
        TickSettled(r.tick) =>
            IF r.due
            THEN /\ Cardinality(TickTasks(r.tick, r.job)) = 1
                 /\ \A n \in TickTasks(r.tick, r.job) : tasks[n].ran = 1
            ELSE \A n \in TickTasks(r.tick, r.job) : tasks[n].ran = 0

\* C5 amended: once a tick has settled, every job whose due() was true in
\* it was dispatched exactly once and a job whose due() was false not at all;
\* a dispatched task invoked run exactly once, unless its write lock
\* acquisition failed on a poisoned lock, in which case it invoked run not at
\* all.
C5_DueJobsRunOnceUnlessLockFails ==
    \A r \in scanned :
        TickSettled(r.tick) =>
            IF r.due
            THEN /\ Cardinality(TickTasks(r.tick, r.job)) = 1
                 /\ \A n \in TickTasks(r.tick, r.job) :
                      IF tasks[n].st = "skipped"
                      THEN tasks[n].ran = 0 /\ poisoned[r.job]
                      ELSE tasks[n].ran = 1
            ELSE TickTasks(r.tick, r.job) = {}

\* A settled tick in which one job was due and ran and another was not due.
C5_Witness ==
    \E r, q \in scanned :
        /\ r.tick = q.tick /\ TickSettled(r.tick)
        /\ r.due /\ ~q.due
        /\ \E n \in TickTasks(r.tick, r.job) : tasks[n].st = "done"

\* C6: once the removal task that a tick spawned for a due OneShot job has
\* completed, the job is out of the registry, stopped, and notified.
C6_OneShotFinalized ==
    \A n \in DOMAIN tasks :
        (tasks[n].kind = "rm" /\ tasks[n].st = "done")
            => /\ ~Present(tasks[n].job)
               /\ stopped[tasks[n].job]
               /\ notified[tasks[n].job] >= 1

\* C7: when the self-removal of a OneShot job returns, every Repeated and
\* CronSchedule job that was in the registry is still there, with its stopped
\* flag, abort count and notification count untouched.
C7_SelfRemovalSparesOthers ==
    (op.kind = "remove" /\ op.phase = "rret" /\ op.caller # Driver
        /\ tasks[op.caller].kind = "rm")
        => \A j \in Range(op.pre.jobs) :
              jtype[j] \in {"Repeated", "CronSchedule"}
                  => /\ Present(j)
                     /\ stopped[j] = op.pre.stopped[j]
                     /\ aborts[j] = op.pre.aborts[j]
                     /\ notified[j] = op.pre.notified[j]

\* C8: run is never invoked on a job after remove(id) has returned for it.
C8_NoRunAfterRemove ==
    [][\A n \in DOMAIN tasks :
          (tasks[n].kind = "run" /\ tasks[n].ran = 0 /\ tasks'[n].ran = 1)
              => tasks[n].job \notin returned]_vars

\* C9: no state has a task that holds a job's write lock inside run while the
\* removal of that job waits for the lock and the task waits for the removal
\* (it made the call itself, or the call is the job's self-removal task's and
\* the task waits for the scheduler that call holds).
C9_NoRemovalDeadlock ==
    \A t \in DOMAIN tasks :
        ~ /\ tasks[t].kind = "run"
          /\ holder[tasks[t].job] = t
          /\ InRemove /\ op.phase = "retain"
          /\ op.arg = tasks[t].job
          /\ op.pre.jobs[op.i] = tasks[t].job
          /\ op.caller # Driver
          /\ \/ op.caller = t
             \/ tasks[op.caller].kind = "rm" /\ tasks[t].st = "waitSched"

\* C10: a tick call in progress can always take its next step, whatever the
\* dispatched tasks are doing.
C10_TickNeverWaits ==
    /\ (op.kind = "tick" /\ op.phase = "scan") => ENABLED TickStep
    /\ (op.kind = "tick" /\ op.phase = "tret") => ENABLED TickReturn

\* A tick scans a job whose body, dispatched by an earlier tick, is running.
C10_Witness ==
    /\ op.kind = "tick" /\ op.phase = "scan"
    /\ \E n \in DOMAIN tasks :
         /\ tasks[n].kind = "run" /\ tasks[n].st = "running"
         /\ tasks[n].tick < nTicks
         /\ jobs[op.i] = tasks[n].job

\* shutdown is at its return with Ok(()).
AtShutdownOk == op.kind = "shutdown" /\ op.phase = "sret" /\ op.res = "ok"

\* C11: when shutdown returns Ok(()), the registry is empty.
C11_ShutdownEmptiesRegistry == AtShutdownOk => jobs = <<>>

\* shutdown returns Ok(()) after draining two jobs.
C11_Witness == AtShutdownOk /\ Len(op.snap) = 2 /\ jobs = <<>>

\* C12: when shutdown returns Ok(()), every job that was in the registry when
\* it was called is stopped and has been notified exactly once.
C12_ShutdownFinalizesAll ==
    AtShutdownOk =>
        \A j \in Range(op.snap) : stopped[j] /\ notified[j] = 1

\* C13: the registered handler object is invoked at most once; an invocation
\* happens only in a shutdown call whose drain emptied the registry and did
\* not fail.
C13_HandlerAtMostOnce ==
    /\ handlerInvoked <= 1
    /\ (op.kind = "shutdown" /\ handlerCalls > op.calls0)
           => jobs = <<>> /\ op.phase = "sret" /\ op.res = "ok"

\* C14: shutdown at its return is never held back by the handler's future,
\* and every spawned future eventually runs.
C14_ShutdownDoesNotAwaitCompletion ==
    /\ []((op.kind = "shutdown" /\ op.phase = "sret") => ENABLED ShutdownReturn)
    /\ (completionsRan < handlerCalls) ~> (completionsRan = handlerCalls)

\* shutdown has returned while the future of its handler has not run yet.
C14_Witness ==
    /\ op.kind = "none" /\ nShutdowns >= 1
    /\ completionsRan < handlerCalls

\* The jobs that contribute a value: readable, with an upcoming instant.
Contributors ==
    {j \in Range(jobs) : ~poisoned[j] /\ upcoming[j].kind = "at"}

Clamped(j) == IF upcoming[j].diff < 0 THEN 0 ELSE upcoming[j].diff

\* C15: time_till_next_job returns 500 ms for an empty registry, zero when
\* no job contributes, and otherwise the least clamped difference of the
\* contributing jobs.
C15_TimeTillNextJob ==
    sleep.called =>
        /\ sleep.ms \in Nat
        /\ jobs = <<>> => sleep.ms = 500
        /\ (jobs # <<>> /\ Contributors = {}) => sleep.ms = 0
        /\ (jobs # <<>> /\ Contributors # {}) =>
               /\ \E j \in Contributors : sleep.ms = Clamped(j)
               /\ \A j \in Contributors : sleep.ms <= Clamped(j)

\* Two jobs contribute, one already past and one ahead, next to none.
C15_Witness ==
    /\ sleep.called
    /\ Len(jobs) = 2
    /\ upcoming[jobs[1]] = At(2) /\ upcoming[jobs[2]] = At(0 - 1)
    /\ ~poisoned[jobs[1]] /\ ~poisoned[jobs[2]]
    /\ sleep.ms = 0

\* The calls a remove call in progress has made on job j, in order.
CallsOn(j) ==
    LET e == SelectSeq(op.ev, LAMBDA c : c.job = j)
    IN  [n \in DOMAIN e |-> e[n].call]

\* C16: at the return of remove(id), the calls made on the removed job are
\* set_stopped, then abort_join_handle if it is OneShot or Repeated, then
\* notify_on_removal; no abort is made on a CronSchedule job.
C16_FinalizeOrder ==
    AtRemoveReturn =>
        /\ \A j \in Range(op.pre.jobs) \ Range(jobs) :
               CallsOn(j) =
                   IF jtype[j] \in {"OneShot", "Repeated"}
                   THEN <<"set_stopped", "abort_join_handle",
                          "notify_on_removal">>
                   ELSE <<"set_stopped", "notify_on_removal">>
        /\ \A n \in DOMAIN op.ev :
               op.ev[n].call = "abort_join_handle"
                   => jtype[op.ev[n].job] # "CronSchedule"

\* C17: every step that invokes a job's on_removed invokes it for the first
\* time, on a job that the step stops and that is out of the registry.
C17_NotifiedOnceOnRemoval ==
    [][\A j \in JobIds :
          notified'[j] # notified[j]
              => /\ notified'[j] = 1
                 /\ ~stopped[j] /\ stopped'[j]
                 /\ j \notin Range(jobs')]_vars

\* C18: a remove call in which the id check of some job failed on the job's
\* lock ends by returning, with every such job still in the registry and its
\* stopped flag, abort count and on_removed count as before the call.
C18_UnreadableJobSkipped ==
    [][(op.kind = "remove" /\ op.failed # {} /\ op'.kind = "none")
          => /\ op.phase = "rret"
             /\ \A j \in op.failed :
                    /\ j \in Range(jobs')
                    /\ stopped'[j] = op.pre.stopped[j]
                    /\ aborts'[j] = op.pre.aborts[j]
                    /\ notified'[j] = op.pre.notified[j]]_vars

\* C19: a shutdown call that met a lock failure in its drain ends by returning
\* the Shutdown error, without having invoked the handler and with the jobs
\* of the snapshot it did not get to still in the registry.
C19_DrainLockFailure ==
    [][(op.kind = "shutdown" /\ op.lockErr /\ op'.kind = "none")
          => /\ op.phase = "sret" /\ op.res = "Shutdown"
             /\ handlerCalls' = op.calls0
             /\ \A n \in (op.k + 1)..Len(op.snap) :
                    op.snap[n] \in Range(jobs')]_vars

\* C20: at the return of remove(id), every job with another id is where it
\* was, and its stopped flag, abort count and on_removed count are those of
\* the call's entry.
C20_OtherJobsUntouched ==
    AtRemoveReturn =>
        /\ SelectSeq(jobs, LAMBDA x : x # op.arg)
               = SelectSeq(op.pre.jobs, LAMBDA x : x # op.arg)
        /\ \A j \in JobIds \ {op.arg} :
               /\ stopped[j] = op.pre.stopped[j]
               /\ aborts[j] = op.pre.aborts[j]
               /\ notified[j] = op.pre.notified[j]
====
